---- MODULE Spec2Model ----
(***************************************************************************)
(* A model of memalloc.c: a first-fit allocator over one caller-supplied   *)
(* arena, with an intrusive free list (struct list free_list) and one      *)
(* global mutex (gmutex).                                                  *)
(*                                                                         *)
(* The arena is a range of byte addresses.  A free block is the record    *)
(* [addr, length] of its header address and its length field; free_list    *)
(* is the sequence of the blocks linked into the list, in list order.      *)
(* used is the set of the used blocks, each the record [addr, length] of    *)
(* its header address and its length field (the payload length).           *)
(* Each thread runs calls of mem_alloc and mem_free, one step per locked   *)
(* region boundary, so that calls of several threads interleave.           *)
(***************************************************************************)
EXTENDS Integers, Sequences, FiniteSets, TLC

----------------------------------------------------------------------------
(* Bounds of the model *)

\* Number of threads calling the allocator.
NumThreads == 2
\* The arena of the runs of one caller is 8 * SeqArenaWords bytes.
SeqArenaWords == 16
\* The arena passed to mem_init is [ArenaBase, ArenaBase + 8 * ArenaWords).
ArenaBase == 16
ArenaWords == 10
\* mem_alloc is called with the lengths 0, 4, ..., 4 * MaxReq.
MaxReq == 5
\* The scripted run is made in arenas of ScenarioArena bytes and a little
\* less, with requests of ScenarioLength bytes and a little less.
ScenarioArena == 200
ScenarioLength == 50
\* The requests above the arena length include the WideReq multiples of 4
\* just below 2^W.
WideReq == 4
\* Width in bits of size_t, long and of a pointer (64 in the build), scaled
\* down so that every address of the arena and every request fits.
W == 9

----------------------------------------------------------------------------
(* Program constants *)

\* sizeof(struct used_block) on LP64: the length field.
UsedHdr == 8
\* sizeof(struct free_block) on LP64: the length field and a struct
\* list_elem of two pointers.
FreeHdr == 24
NULL == 0
\* gmutex when no thread owns it.
NoOwner == 0

Threads == 1..NumThreads
ArenaLen == 8 * ArenaWords
Lengths == {4 * k : k \in 0..MaxReq}
Modulus == 2 ^ W

\* Unsigned arithmetic of width W, and the value of a word read as a long.
Wrap(x) == x % Modulus
Signed(x) == IF x >= Modulus \div 2 THEN x - Modulus ELSE x

Min(S) == CHOOSE x \in S : \A y \in S : x <= y
Max(S) == CHOOSE x \in S : \A y \in S : x >= y

VARIABLES
    arena,       \* the arena given to mem_init: [base, length]
    free_list,   \* the blocks linked into free_list, in list order
    used,        \* the used blocks whose header is in the arena
    gmutex,      \* the thread that owns gmutex, or NoOwner
    outstanding, \* data pointers returned by mem_alloc, not yet passed to mem_free
    pc,          \* where each thread is in its call
    length,      \* mem_alloc's argument
    ptr,         \* mem_free's argument
    ret,         \* the pointer mem_alloc is about to return
    fb_before,   \* mem_free's local: the free block that ends at the used block
    fb_after,    \* mem_free's local: the free block that starts after it
    returned,    \* the pointers mem_alloc returned, as a scripted caller keeps them
    observed     \* what the diagnostic function a thread is in has read

vars == <<arena, free_list, used, gmutex, outstanding, pc, length, ptr, ret,
          fb_before, fb_after, returned, observed>>

\* What callers keep of their calls; mem_alloc and mem_free leave it alone.
notes == <<returned, observed>>

\* The thread is in no diagnostic function.
Unobserved == [kind |-> "none", size |-> 0, dump |-> <<>>]

----------------------------------------------------------------------------
(* The list operations used by memalloc.c *)

\* list_remove of the element embedded in the free block at address a.
list_remove(fl, a) == SelectSeq(fl, LAMBDA fb : fb.addr # a)

\* The int a C function returns through the return type bool.
ToBool(i) == i # 0

\* compare as a less-than on addresses.
compare_less(a, b) == a < b

\* compare: -1, 0 or 1 by address, returned as a bool.
compare(a, b) ==
    ToBool(IF a < b THEN -1 ELSE IF a = b THEN 0 ELSE 1)

\* list_insert_ordered with compare as its less function: insert before the
\* first element e with less(elem, e), at the end when there is none.
list_insert_ordered(fl, fb) ==
    LET stop == {i \in 1..Len(fl) : compare(fb.addr, fl[i].addr)}
        at == IF stop = {} THEN Len(fl) + 1 ELSE Min(stop)
    IN  SubSeq(fl, 1, at - 1) \o <<fb>> \o SubSeq(fl, at, Len(fl))

----------------------------------------------------------------------------
(* Headers in the arena *)

\* ((struct used_block *)ub)->length = len.
write_used(u, ub, len) ==
    {b \in u : b.addr # ub} \cup {[addr |-> ub, length |-> len]}

\* ((struct used_block *)ub)->length.
used_length(u, ub) == (CHOOSE b \in u : b.addr = ub).length

\* ((struct free_block *)a)->length.
free_length(fl, a) == fl[CHOOSE i \in 1..Len(fl) : fl[i].addr = a].length

\* ((struct free_block *)a)->length += n.
extend(fl, a, n) ==
    [i \in 1..Len(fl) |->
        IF fl[i].addr = a THEN [fl[i] EXCEPT !.length = Wrap(@ + n)] ELSE fl[i]]

----------------------------------------------------------------------------
(* mem_init *)

mem_init(base, len) == <<[addr |-> base, length |-> len]>>

Init ==
    /\ arena = [base |-> ArenaBase, length |-> ArenaLen]
    /\ free_list = mem_init(ArenaBase, ArenaLen)
    /\ used = {}
    /\ gmutex = NoOwner
    /\ outstanding = {}
    /\ pc = [t \in Threads |-> "idle"]
    /\ length = [t \in Threads |-> 0]
    /\ ptr = [t \in Threads |-> NULL]
    /\ ret = [t \in Threads |-> NULL]
    /\ fb_before = [t \in Threads |-> NULL]
    /\ fb_after = [t \in Threads |-> NULL]
    /\ returned = <<>>
    /\ observed = [t \in Threads |-> Unobserved]

----------------------------------------------------------------------------
(* pthread_mutex_lock and pthread_mutex_unlock on gmutex *)

\* A thread returns from pthread_mutex_lock as the owner of gmutex, and only
\* when no other thread owns it.  gmutex is a default mutex
\* (PTHREAD_MUTEX_INITIALIZER): locking it again by its owner is undefined,
\* the thread may wait for ever (it never takes this step) or go on.
lock(t) ==
    /\ gmutex \in {NoOwner, t}
    /\ gmutex' = t

unlock(t) == gmutex' = NoOwner

----------------------------------------------------------------------------
(* mem_alloc *)

\* The smallest payload: min_alloc_size.
min_alloc_size == FreeHdr - UsedHdr

\* clamp without the test against min_alloc_size.
clamp_missing(len) == len

\* The request raised to min_alloc_size.
clamp(len) == IF len < min_alloc_size THEN min_alloc_size ELSE len

\* first_fit that passes over a block of exactly size_needed bytes.
first_fit_strict(fl, size_needed) ==
    LET fits == {i \in 1..Len(fl) : fl[i].length > size_needed}
    IN  IF fits = {} THEN 0 ELSE Min(fits)

\* The index in the list of the first free block of at least size_needed
\* bytes, 0 when the loop ends without one.
first_fit(fl, size_needed) ==
    LET fits == {i \in 1..Len(fl) : ~(fl[i].length < size_needed)}
    IN  IF fits = {} THEN 0 ELSE Min(fits)

\* carve without "length += leftover": the block is removed from the list
\* and the used block takes only what was asked for.
carve_drops_leftover(fl, u, i, len0) ==
    LET fb == fl[i]
        size_needed == Wrap(len0 + UsedHdr)
        leftover == Signed(Wrap(fb.length - size_needed))
        absorb == leftover < FreeHdr
        ub == Wrap(Wrap(fb.addr + fb.length) - size_needed)
        shrunk == [fb EXCEPT !.length = Wrap(fb.length - size_needed)]
    IN  [free_list |-> IF absorb THEN list_remove(fl, fb.addr)
                                 ELSE [fl EXCEPT ![i] = shrunk],
         used |-> write_used(u, ub, len0),
         ret |-> Wrap(ub + UsedHdr)]

\* carve with the leftover tested against the size of the used header.
carve_keeps_sliver(fl, u, i, len0) ==
    LET fb == fl[i]
        needed0 == Wrap(len0 + UsedHdr)
        leftover == Signed(Wrap(fb.length - needed0))
        absorb == leftover < UsedHdr
        len == IF absorb THEN Wrap(len0 + leftover) ELSE len0
        size_needed == Wrap(len + UsedHdr)
        ub == Wrap(Wrap(fb.addr + fb.length) - size_needed)
        shrunk == [fb EXCEPT !.length = Wrap(fb.length - size_needed)]
    IN  [free_list |-> IF absorb THEN list_remove(fl, fb.addr)
                                 ELSE [fl EXCEPT ![i] = shrunk],
         used |-> write_used(u, ub, len),
         ret |-> Wrap(ub + UsedHdr)]

\* carve from the low end: the used block at the start of the free block,
\* the free block left where it was.
carve_low_end(fl, u, i, len0) ==
    LET fb == fl[i]
        needed0 == Wrap(len0 + UsedHdr)
        leftover == Signed(Wrap(fb.length - needed0))
        absorb == leftover < FreeHdr
        len == IF absorb THEN Wrap(len0 + leftover) ELSE len0
        size_needed == Wrap(len + UsedHdr)
        ub == fb.addr
        shrunk == [fb EXCEPT !.length = Wrap(fb.length - size_needed)]
    IN  [free_list |-> IF absorb THEN list_remove(fl, fb.addr)
                                 ELSE [fl EXCEPT ![i] = shrunk],
         used |-> write_used(u, ub, len),
         ret |-> Wrap(ub + UsedHdr)]

\* carve without the list_remove: the block stays in the list, its length
\* set to what is left.
carve_no_remove(fl, u, i, len0) ==
    LET fb == fl[i]
        needed0 == Wrap(len0 + UsedHdr)
        leftover == Signed(Wrap(fb.length - needed0))
        absorb == leftover < FreeHdr
        len == IF absorb THEN Wrap(len0 + leftover) ELSE len0
        size_needed == Wrap(len + UsedHdr)
        ub == Wrap(Wrap(fb.addr + fb.length) - size_needed)
        shrunk == [fb EXCEPT !.length = Wrap(fb.length - size_needed)]
    IN  [free_list |-> [fl EXCEPT ![i] = shrunk],
         used |-> write_used(u, ub, len),
         ret |-> Wrap(ub + UsedHdr)]

\* carve with the used block placed without room for its header.
carve_without_header(fl, u, i, len0) ==
    LET fb == fl[i]
        needed0 == Wrap(len0 + UsedHdr)
        leftover == Signed(Wrap(fb.length - needed0))
        absorb == leftover < FreeHdr
        len == IF absorb THEN Wrap(len0 + leftover) ELSE len0
        size_needed == Wrap(len + UsedHdr)
        ub == Wrap(Wrap(fb.addr + fb.length) - len)
        shrunk == [fb EXCEPT !.length = Wrap(fb.length - size_needed)]
    IN  [free_list |-> IF absorb THEN list_remove(fl, fb.addr)
                                 ELSE [fl EXCEPT ![i] = shrunk],
         used |-> write_used(u, ub, len),
         ret |-> Wrap(ub + UsedHdr)]

\* The body of the loop for the chosen block fl[i]: the list, the used
\* headers and the data pointer that result.
carve(fl, u, i, len0) ==
    LET fb == fl[i]
        needed0 == Wrap(len0 + UsedHdr)
        leftover == Signed(Wrap(fb.length - needed0))
        absorb == leftover < FreeHdr
        len == IF absorb THEN Wrap(len0 + leftover) ELSE len0
        size_needed == Wrap(len + UsedHdr)
        end_of_fb == Wrap(fb.addr + fb.length)
        ub == Wrap(end_of_fb - size_needed)
        shrunk == [fb EXCEPT !.length = Wrap(fb.length - size_needed)]
    IN  [free_list |-> IF absorb THEN list_remove(fl, fb.addr)
                                 ELSE [fl EXCEPT ![i] = shrunk],
         used |-> write_used(u, ub, len),
         ret |-> Wrap(ub + UsedHdr)]

\* The locked region of mem_alloc(len).
mem_alloc(fl, u, len) ==
    LET len0 == clamp(len)
        i == first_fit(fl, Wrap(len0 + UsedHdr))
    IN  IF i = 0
        THEN [free_list |-> fl, used |-> u, ret |-> NULL]
        ELSE carve(fl, u, i, len0)

\* A thread calls mem_alloc(len).
alloc_call(t) ==
    /\ pc[t] = "idle"
    /\ \E len \in Lengths : length' = [length EXCEPT ![t] = len]
    /\ pc' = [pc EXCEPT ![t] = "alloc_lock"]
    /\ UNCHANGED <<notes, arena, free_list, used, gmutex, outstanding, ptr, ret,
                   fb_before, fb_after>>

\* alloc_lock without the call of pthread_mutex_lock.
alloc_lock_missing(t) ==
    /\ pc[t] = "alloc_lock"
    /\ pc' = [pc EXCEPT ![t] = "alloc_search"]
    /\ UNCHANGED <<notes, arena, free_list, used, gmutex, outstanding, length, ptr,
                   ret, fb_before, fb_after>>

alloc_lock(t) ==
    /\ pc[t] = "alloc_lock"
    /\ lock(t)
    /\ pc' = [pc EXCEPT ![t] = "alloc_search"]
    /\ UNCHANGED <<notes, arena, free_list, used, outstanding, length, ptr, ret,
                   fb_before, fb_after>>

alloc_search(t) ==
    /\ pc[t] = "alloc_search"
    /\ LET r == mem_alloc(free_list, used, length[t])
       IN  /\ free_list' = r.free_list
           /\ used' = r.used
           /\ ret' = [ret EXCEPT ![t] = r.ret]
    /\ pc' = [pc EXCEPT ![t] = "alloc_unlock"]
    /\ UNCHANGED <<notes, arena, gmutex, outstanding, length, ptr, fb_before, fb_after>>

\* alloc_unlock with the unlock only where a block was found.
alloc_unlock_on_success(t) ==
    /\ pc[t] = "alloc_unlock"
    /\ gmutex' = IF ret[t] = NULL THEN gmutex ELSE NoOwner
    /\ outstanding' = IF ret[t] = NULL THEN outstanding
                                        ELSE outstanding \cup {ret[t]}
    /\ pc' = [pc EXCEPT ![t] = "idle"]
    /\ length' = [length EXCEPT ![t] = 0]
    /\ ret' = [ret EXCEPT ![t] = NULL]
    /\ UNCHANGED <<notes, arena, free_list, used, ptr, fb_before, fb_after>>

\* pthread_mutex_unlock and the return of the data pointer, or of NULL.
alloc_unlock(t) ==
    /\ pc[t] = "alloc_unlock"
    /\ unlock(t)
    /\ outstanding' = IF ret[t] = NULL THEN outstanding
                                        ELSE outstanding \cup {ret[t]}
    /\ pc' = [pc EXCEPT ![t] = "idle"]
    /\ length' = [length EXCEPT ![t] = 0]
    /\ ret' = [ret EXCEPT ![t] = NULL]
    /\ UNCHANGED <<notes, arena, free_list, used, ptr, fb_before, fb_after>>

----------------------------------------------------------------------------
(* mem_free *)

\* The header of the used block of a data pointer.
header(p) == Wrap(p - UsedHdr)

\* find_before with the end of the free block compared to the data pointer.
find_before_at_data(fl, ub) ==
    LET m == {i \in 1..Len(fl) :
                 Wrap(fl[i].addr + fl[i].length) = Wrap(ub + UsedHdr)}
    IN  IF m = {} THEN NULL ELSE fl[Max(m)].addr

\* The loop over the list: the last free block that ends at ub, or NULL.
find_before(fl, ub) ==
    LET m == {i \in 1..Len(fl) : Wrap(fl[i].addr + fl[i].length) = ub}
    IN  IF m = {} THEN NULL ELSE fl[Max(m)].addr

\* find_after with the end of the payload taken from the header address.
find_after_from_header(fl, p, len) ==
    LET m == {i \in 1..Len(fl) : fl[i].addr = Wrap(header(p) + len)}
    IN  IF m = {} THEN NULL ELSE fl[Max(m)].addr

\* The loop over the list: the last free block that starts at the end of the
\* payload, or NULL.
find_after(fl, p, len) ==
    LET m == {i \in 1..Len(fl) : fl[i].addr = Wrap(p + len)}
    IN  IF m = {} THEN NULL ELSE fl[Max(m)].addr

\* coalesce whose last branch adds the freed span but not the block after.
coalesce_forgets_after(fl, ub, available_space, before, after) ==
    IF before = NULL /\ after = NULL
    THEN list_insert_ordered(fl, [addr |-> ub, length |-> available_space])
    ELSE IF before # NULL /\ after = NULL
    THEN extend(fl, before, available_space)
    ELSE IF before = NULL /\ after # NULL
    THEN list_insert_ordered(fl,
             [addr |-> ub,
              length |-> Wrap(available_space + free_length(fl, after))])
    ELSE list_remove(extend(fl, before, available_space), after)

\* The four branches on fb_before and fb_after, up to the list_remove of
\* the branch "coalesce down but not up", which is the step free_remove.
coalesce(fl, ub, available_space, before, after) ==
    IF before = NULL /\ after = NULL
    THEN list_insert_ordered(fl, [addr |-> ub, length |-> available_space])
    ELSE IF before # NULL /\ after = NULL
    THEN extend(fl, before, available_space)
    ELSE IF before = NULL /\ after # NULL
    THEN list_insert_ordered(fl,
             [addr |-> ub,
              length |-> Wrap(available_space + free_length(fl, after))])
    ELSE list_remove(
             extend(extend(fl, before, available_space),
                    before, free_length(fl, after)),
             after)

\* A thread calls mem_free with NULL or with a pointer mem_alloc returned
\* that has not been freed.
free_call(t) ==
    /\ pc[t] = "idle"
    /\ \E p \in outstanding \cup {NULL} :
        /\ ptr' = [ptr EXCEPT ![t] = p]
        /\ outstanding' = outstanding \ {p}
    /\ pc' = [pc EXCEPT ![t] = "free_lock"]
    /\ UNCHANGED <<notes, arena, free_list, used, gmutex, length, ret, fb_before, fb_after>>

free_lock(t) ==
    /\ pc[t] = "free_lock"
    /\ lock(t)
    /\ pc' = [pc EXCEPT ![t] = "free_scan"]
    /\ UNCHANGED <<notes, arena, free_list, used, outstanding, length, ptr, ret,
                   fb_before, fb_after>>

\* The return on NULL.
free_null(t) ==
    /\ pc[t] = "free_scan"
    /\ ptr[t] = NULL
    /\ pc' = [pc EXCEPT ![t] = "idle"]
    /\ UNCHANGED <<notes, arena, free_list, used, gmutex, outstanding, length, ptr, ret,
                   fb_before, fb_after>>

\* The search for the free blocks around the used block.
free_scan(t) ==
    /\ pc[t] = "free_scan"
    /\ ptr[t] # NULL
    /\ LET ub == header(ptr[t])
       IN  /\ fb_before' = [fb_before EXCEPT ![t] = find_before(free_list, ub)]
           /\ fb_after' = [fb_after EXCEPT ![t] =
                              find_after(free_list, ptr[t], used_length(used, ub))]
    /\ pc' = [pc EXCEPT ![t] = "free_merge"]
    /\ UNCHANGED <<notes, arena, free_list, used, gmutex, outstanding, length, ptr, ret>>

\* free_merge that, coalescing up but not down, removes the block after in
\* the step that inserts the merged block.
free_merge_removes_at_once(t) ==
    /\ pc[t] = "free_merge"
    /\ LET ub == header(ptr[t])
           available_space == Wrap(UsedHdr + used_length(used, ub))
           merged == coalesce(free_list, ub, available_space,
                              fb_before[t], fb_after[t])
       IN  /\ free_list' = IF fb_before[t] = NULL /\ fb_after[t] # NULL
                            THEN list_remove(merged, fb_after[t])
                            ELSE merged
           /\ used' = {b \in used : b.addr # ub}
    /\ pc' = [pc EXCEPT ![t] = "free_unlock"]
    /\ UNCHANGED <<notes, arena, gmutex, outstanding, length, ptr, ret,
                   fb_before, fb_after>>

\* The branch taken: the used block becomes free.
free_merge(t) ==
    /\ pc[t] = "free_merge"
    /\ LET ub == header(ptr[t])
           available_space == Wrap(UsedHdr + used_length(used, ub))
       IN  /\ free_list' = coalesce(free_list, ub, available_space,
                                    fb_before[t], fb_after[t])
           /\ used' = {b \in used : b.addr # ub}
    /\ pc' = [pc EXCEPT ![t] =
                IF fb_before[t] = NULL /\ fb_after[t] # NULL
                THEN "free_remove" ELSE "free_unlock"]
    /\ UNCHANGED <<notes, arena, gmutex, outstanding, length, ptr, ret, fb_before, fb_after>>

\* free_remove without the list_remove.
free_remove_skipped(t) ==
    /\ pc[t] = "free_remove"
    /\ pc' = [pc EXCEPT ![t] = "free_unlock"]
    /\ UNCHANGED <<notes, arena, free_list, used, gmutex, outstanding, length, ptr,
                   ret, fb_before, fb_after>>

\* list_remove(e_to_remove) after the insertion of the merged block.
free_remove(t) ==
    /\ pc[t] = "free_remove"
    /\ free_list' = list_remove(free_list, fb_after[t])
    /\ pc' = [pc EXCEPT ![t] = "free_unlock"]
    /\ UNCHANGED <<notes, arena, used, gmutex, outstanding, length, ptr, ret,
                   fb_before, fb_after>>

free_unlock(t) ==
    /\ pc[t] = "free_unlock"
    /\ unlock(t)
    /\ pc' = [pc EXCEPT ![t] = "idle"]
    /\ ptr' = [ptr EXCEPT ![t] = NULL]
    /\ fb_before' = [fb_before EXCEPT ![t] = NULL]
    /\ fb_after' = [fb_after EXCEPT ![t] = NULL]
    /\ UNCHANGED <<notes, arena, free_list, used, outstanding, length, ret>>

----------------------------------------------------------------------------
(* The specifications *)

\* A step of a call in progress.
Step(t) ==
    \/ alloc_lock(t)
    \/ alloc_search(t)
    \/ alloc_unlock(t)
    \/ free_lock(t)
    \/ free_null(t)
    \/ free_scan(t)
    \/ free_merge(t)
    \/ free_remove(t)
    \/ free_unlock(t)

Next ==
    \E t \in Threads :
        \/ alloc_call(t)
        \/ free_call(t)
        \/ Step(t)

Spec == Init /\ [][Next]_vars

\* A call in progress goes on, and a thread that finds gmutex free again
\* and again acquires it.
FairSpec ==
    /\ Spec
    /\ \A t \in Threads :
          /\ WF_vars(Step(t))
          /\ SF_vars(alloc_lock(t) \/ free_lock(t))

----------------------------------------------------------------------------
(* Requests of any size: lengths above the length of the arena, up to the  *)
(* largest values of size_t                                                *)

WideLengths ==
    {ArenaLen + 4, Modulus \div 2} \cup {Modulus - 4 * k : k \in 1..WideReq}

\* A thread calls mem_alloc with a length above the length of the arena.
alloc_call_wide(t) ==
    /\ pc[t] = "idle"
    /\ \E len \in WideLengths : length' = [length EXCEPT ![t] = len]
    /\ pc' = [pc EXCEPT ![t] = "alloc_lock"]
    /\ UNCHANGED <<notes, arena, free_list, used, gmutex, outstanding, ptr,
                   ret, fb_before, fb_after>>

\* No used header has been written outside the arena.  A write outside it
\* is undefined: what the program does afterwards is not modelled.
InArena ==
    \A b \in used :
        arena.base <= b.addr /\ b.addr + UsedHdr + b.length
                                   <= arena.base + arena.length

WideNext ==
    \E t \in Threads :
        \/ InArena /\ alloc_call_wide(t)
        \/ InArena /\ alloc_call(t)
        \/ InArena /\ free_call(t)
        \/ InArena /\ alloc_lock(t)
        \/ InArena /\ alloc_search(t)
        \/ InArena /\ alloc_unlock(t)
        \/ InArena /\ free_lock(t)
        \/ InArena /\ free_null(t)
        \/ InArena /\ free_scan(t)
        \/ InArena /\ free_merge(t)
        \/ InArena /\ free_remove(t)
        \/ InArena /\ free_unlock(t)

WideSpec == Init /\ [][WideNext]_vars

----------------------------------------------------------------------------
(* The diagnostic functions, called while other threads allocate and free  *)

\* mem_sizeof_free_list: list_size of the list as it is, without the lock.
\* The read races with a mem_free in progress; the list as it is at one
\* instant is the least a racing read can see.
mem_sizeof_free_list(t) ==
    /\ pc[t] = "idle"
    /\ observed' = [observed EXCEPT ![t] =
           [kind |-> "size", size |-> Len(free_list), dump |-> <<>>]]
    /\ pc' = [pc EXCEPT ![t] = "diag_return"]
    /\ UNCHANGED <<returned, arena, free_list, used, gmutex, outstanding,
                   length, ptr, ret, fb_before, fb_after>>

\* mem_dump_free_list: the address and the length of every entry, in list
\* order, without the lock.
mem_dump_free_list(t) ==
    /\ pc[t] = "idle"
    /\ observed' = [observed EXCEPT ![t] =
           [kind |-> "dump", size |-> 0, dump |-> free_list]]
    /\ pc' = [pc EXCEPT ![t] = "diag_return"]
    /\ UNCHANGED <<returned, arena, free_list, used, gmutex, outstanding,
                   length, ptr, ret, fb_before, fb_after>>

\* The return of a diagnostic function; the caller has its output.
diag_return(t) ==
    /\ pc[t] = "diag_return"
    /\ observed' = [observed EXCEPT ![t] = Unobserved]
    /\ pc' = [pc EXCEPT ![t] = "idle"]
    /\ UNCHANGED <<returned, arena, free_list, used, gmutex, outstanding,
                   length, ptr, ret, fb_before, fb_after>>

DiagNext ==
    \E t \in Threads :
        \/ alloc_call(t)
        \/ free_call(t)
        \/ Step(t)
        \/ mem_sizeof_free_list(t)
        \/ mem_dump_free_list(t)
        \/ diag_return(t)

DiagSpec == Init /\ [][DiagNext]_vars

----------------------------------------------------------------------------
(* One caller: every call runs from its lock to its unlock in one step *)

\* The locked region of mem_free(p), p a pointer mem_alloc returned.
mem_free(fl, u, p) ==
    LET ub == header(p)
        len == used_length(u, ub)
        before == find_before(fl, ub)
        after == find_after(fl, p, len)
        merged == coalesce(fl, ub, Wrap(UsedHdr + len), before, after)
    IN  [free_list |-> IF before = NULL /\ after # NULL
                       THEN list_remove(merged, after) ELSE merged,
         used |-> {b \in u : b.addr # ub},
         fb_before |-> before,
         fb_after |-> after]

SeqInit ==
    /\ arena = [base |-> ArenaBase, length |-> 8 * SeqArenaWords]
    /\ free_list = mem_init(ArenaBase, 8 * SeqArenaWords)
    /\ used = {}
    /\ gmutex = NoOwner
    /\ outstanding = {}
    /\ pc = [t \in Threads |-> "idle"]
    /\ length = [t \in Threads |-> 0]
    /\ ptr = [t \in Threads |-> NULL]
    /\ ret = [t \in Threads |-> NULL]
    /\ fb_before = [t \in Threads |-> NULL]
    /\ fb_after = [t \in Threads |-> NULL]
    /\ returned = <<>>
    /\ observed = [t \in Threads |-> Unobserved]

\* A whole call of mem_alloc(len) by thread 1, whose variables keep the
\* argument and the result of its last call.
seq_alloc ==
    /\ gmutex = NoOwner
    /\ \E len \in Lengths :
          LET r == mem_alloc(free_list, used, len)
          IN  /\ free_list' = r.free_list
              /\ used' = r.used
              /\ outstanding' = IF r.ret = NULL THEN outstanding
                                 ELSE outstanding \cup {r.ret}
              /\ length' = [length EXCEPT ![1] = len]
              /\ ret' = [ret EXCEPT ![1] = r.ret]
    /\ ptr' = [ptr EXCEPT ![1] = NULL]
    /\ fb_before' = [fb_before EXCEPT ![1] = NULL]
    /\ fb_after' = [fb_after EXCEPT ![1] = NULL]
    /\ UNCHANGED <<notes, arena, gmutex, pc>>

\* A whole call of mem_free(p) by thread 1, p an outstanding pointer.
seq_free ==
    /\ gmutex = NoOwner
    /\ \E p \in outstanding :
          LET r == mem_free(free_list, used, p)
          IN  /\ free_list' = r.free_list
              /\ used' = r.used
              /\ outstanding' = outstanding \ {p}
              /\ ptr' = [ptr EXCEPT ![1] = p]
              /\ fb_before' = [fb_before EXCEPT ![1] = r.fb_before]
              /\ fb_after' = [fb_after EXCEPT ![1] = r.fb_after]
    /\ length' = [length EXCEPT ![1] = 0]
    /\ ret' = [ret EXCEPT ![1] = NULL]
    /\ UNCHANGED <<notes, arena, gmutex, pc>>

SeqNext == seq_alloc \/ seq_free

SeqSpec == SeqInit /\ [][SeqNext]_vars

----------------------------------------------------------------------------
(* A scripted caller: p1 = mem_alloc(L); p2 = mem_alloc(L); mem_free(p1);  *)
(* p3 = mem_alloc(L), each call in one step, the pointers kept in returned *)

ScenarioInit ==
    \E base \in {ArenaBase, ArenaBase + 8},
       len \in {ScenarioArena - 8 * k : k \in 0..3},
       L \in {ScenarioLength - 2 * k : k \in 0..3} :
        /\ arena = [base |-> base, length |-> len]
        /\ free_list = mem_init(base, len)
        /\ used = {}
        /\ gmutex = NoOwner
        /\ outstanding = {}
        /\ pc = [t \in Threads |-> "idle"]
        /\ length = [t \in Threads |-> IF t = 1 THEN L ELSE 0]
        /\ ptr = [t \in Threads |-> NULL]
        /\ ret = [t \in Threads |-> NULL]
        /\ fb_before = [t \in Threads |-> NULL]
        /\ fb_after = [t \in Threads |-> NULL]
        /\ returned = <<>>
        /\ observed = [t \in Threads |-> Unobserved]

\* The first, second and third mem_alloc(L) of the script.
scenario_alloc ==
    /\ \/ Len(returned) < 2
       \/ Len(returned) = 2 /\ returned[1] \notin outstanding
    /\ LET r == mem_alloc(free_list, used, length[1])
       IN  /\ free_list' = r.free_list
           /\ used' = r.used
           /\ outstanding' = IF r.ret = NULL THEN outstanding
                              ELSE outstanding \cup {r.ret}
           /\ ret' = [ret EXCEPT ![1] = r.ret]
           /\ returned' = Append(returned, r.ret)
    /\ UNCHANGED <<observed, arena, gmutex, pc, length, ptr, fb_before, fb_after>>

\* mem_free(p1) after the second mem_alloc.
scenario_free ==
    /\ Len(returned) = 2
    /\ returned[1] \in outstanding
    /\ LET r == mem_free(free_list, used, returned[1])
       IN  /\ free_list' = r.free_list
           /\ used' = r.used
           /\ outstanding' = outstanding \ {returned[1]}
           /\ ptr' = [ptr EXCEPT ![1] = returned[1]]
           /\ fb_before' = [fb_before EXCEPT ![1] = r.fb_before]
           /\ fb_after' = [fb_after EXCEPT ![1] = r.fb_after]
    /\ UNCHANGED <<notes, arena, gmutex, pc, length, ret>>

ScenarioNext == scenario_alloc \/ scenario_free

ScenarioSpec == ScenarioInit /\ [][ScenarioNext]_vars

----------------------------------------------------------------------------
(* What the claims speak of *)

RECURSIVE SumFree(_)
\* The sum of the lengths of the blocks of a free list.
SumFree(fl) == IF fl = <<>> THEN 0 ELSE Head(fl).length + SumFree(Tail(fl))

\* The bytes of a used block: its header and its payload.
Span(b) == UsedHdr + b.length

RECURSIVE SumUsed(_)
\* The sum of the spans of a set of used blocks.
SumUsed(u) ==
    IF u = {} THEN 0
    ELSE LET b == CHOOSE x \in u : TRUE IN Span(b) + SumUsed(u \ {b})

\* The lock is not held.
Quiescent == gmutex = NoOwner

ArenaEnd == arena.base + arena.length

\* The free-list entries and the used blocks that hold the byte at a.
FreeAt(a) ==
    {i \in 1..Len(free_list) :
        free_list[i].addr <= a /\ a < free_list[i].addr + free_list[i].length}
UsedAt(a) == {b \in used : b.addr <= a /\ a < b.addr + Span(b)}

\* The free list is the whole arena in one block.
WholeArenaFree == free_list = <<[addr |-> arena.base, length |-> arena.length]>>

----------------------------------------------------------------------------
(* The claims *)

\* C1: at every point where the lock is not held, the lengths of the free
\* blocks plus the spans (header and payload) of the used blocks add up to
\* the length of the arena.
C1_Conservation ==
    Quiescent => SumFree(free_list) + SumUsed(used) = arena.length

\* C1 witness: the lock is free after allocations and a free that left two
\* free blocks around a used one.
C1_Witness ==
    /\ Quiescent
    /\ Len(free_list) = 2
    /\ used # {}

\* C2: at every point where the lock is not held, every byte of the arena is
\* in exactly one block, free or used, no block reaches outside the arena,
\* and no two entries of the free list have the same address.
C2_Tiling ==
    Quiescent =>
        /\ \A a \in arena.base..(ArenaEnd - 1) :
              Cardinality(FreeAt(a)) + Cardinality(UsedAt(a)) = 1
        /\ \A i \in 1..Len(free_list) :
              /\ arena.base <= free_list[i].addr
              /\ free_list[i].addr + free_list[i].length <= ArenaEnd
        /\ \A b \in used : arena.base <= b.addr /\ b.addr + Span(b) <= ArenaEnd
        /\ \A i, j \in 1..Len(free_list) :
              i # j => free_list[i].addr # free_list[j].addr

\* C2 witness: the lock is free with two used blocks and a free block
\* between the calls.
C2_Witness ==
    /\ Quiescent
    /\ Cardinality(used) >= 2
    /\ free_list # <<>>
    /\ \E t \in Threads : pc[t] = "free_lock" /\ ptr[t] # NULL

\* C3: after every completed call the free list is strictly ascending by
\* address from its first entry to its last.
C3_AddressOrder ==
    Quiescent =>
        \A i, j \in 1..Len(free_list) :
            i < j => free_list[i].addr < free_list[j].addr

\* C4: once no used block is left and no merge is half done, the free list
\* is one entry at the base of the arena, of the length of the arena.
C4_FullReclamation ==
    (used = {} /\ \A t \in Threads : pc[t] # "free_remove") => WholeArenaFree

\* C4 witness: the last used block has been freed between two free blocks,
\* which were merged with it.
C4_Witness ==
    \E t \in Threads :
        /\ pc[t] = "free_unlock"
        /\ fb_before[t] # NULL
        /\ fb_after[t] # NULL
        /\ used = {}
        /\ WholeArenaFree

\* A thread is between the lock and the unlock of a call.
Locked(t) ==
    pc[t] \in {"alloc_search", "alloc_unlock",
               "free_scan", "free_merge", "free_remove", "free_unlock"}

\* A thread waits in pthread_mutex_lock.
Waiting(t) == pc[t] \in {"alloc_lock", "free_lock"}

\* C5: a mem_alloc that finds no block leaves the free list and the used
\* headers as they were, in each of its steps, and returns NULL with the
\* lock released.
C5_OutOfMemoryUntouched ==
    [][\A t \in Threads :
          /\ (pc[t] = "alloc_search" /\ pc'[t] = "alloc_unlock"
                 /\ ret'[t] = NULL)
             => (free_list' = free_list /\ used' = used)
          /\ (pc[t] = "alloc_unlock" /\ pc'[t] = "idle" /\ ret[t] = NULL)
             => (free_list' = free_list /\ used' = used /\ gmutex' # t)]_vars

\* C5 witness: a search has failed on a list that is not empty.
C5_Witness ==
    \E t \in Threads :
        /\ pc[t] = "alloc_unlock"
        /\ ret[t] = NULL
        /\ free_list # <<>>
        /\ used # {}

\* C6: mem_free(NULL) returns with the free list unchanged and without
\* holding the lock.
C6_NullFreeIsNoOp ==
    [][\A t \in Threads :
          (pc[t] = "free_scan" /\ ptr[t] = NULL /\ pc'[t] = "idle")
          => (free_list' = free_list /\ gmutex' # t)]_vars

\* C7: under fairness every call returns, and a call waits for the lock
\* only while the owner of the lock is inside a call.
C7_NoDeadlock ==
    /\ \A t \in Threads : (pc[t] # "idle") ~> (pc[t] = "idle")
    /\ [](\A t \in Threads :
            (Waiting(t) /\ gmutex # NoOwner) => Locked(gmutex))

\* C8: no two threads are between lock and unlock at once, and a thread
\* that is there, where the free list is read and written, owns gmutex.
C8_MutualExclusion ==
    /\ \A t1, t2 \in Threads : (Locked(t1) /\ Locked(t2)) => t1 = t2
    /\ \A t \in Threads : Locked(t) => gmutex = t

\* C8 witness: one thread merges a freed block while another waits for the
\* lock.
C8_Witness ==
    \E t1, t2 \in Threads :
        /\ pc[t1] = "free_merge"
        /\ Waiting(t2)

\* The payload of an outstanding pointer: [p, p + stored length).
PayloadEnd(p) == p + used_length(used, header(p))

\* C9: the payloads of two pointers that are outstanding together are
\* disjoint, and each lies inside the arena.
C9_NoAllocationOverlap ==
    /\ \A p \in outstanding :
          /\ \E b \in used : b.addr = header(p)
          /\ arena.base <= p
          /\ PayloadEnd(p) <= ArenaEnd
    /\ \A p, q \in outstanding :
          p < q => PayloadEnd(p) <= q

\* C9 witness: two pointers are outstanding while a call of another thread
\* is in its locked region.
C9_Witness ==
    /\ Cardinality(outstanding) >= 2
    /\ \E t \in Threads : Locked(t)

\* C10: the used block of a successful mem_alloc(L) stores a length of at
\* least L and of at least sizeof(free_block) - sizeof(used_block), so that
\* header and payload are at least sizeof(free_block).
C10_MinimumSizeClamp ==
    \A t \in Threads :
        (pc[t] = "alloc_unlock" /\ ret[t] # NULL) =>
            LET len == used_length(used, header(ret[t]))
            IN  /\ len >= length[t]
                /\ len >= FreeHdr - UsedHdr
                /\ UsedHdr + len >= FreeHdr

\* C10 witness: mem_alloc(0) has found a block.
C10_Witness ==
    \E t \in Threads :
        /\ pc[t] = "alloc_unlock"
        /\ ret[t] # NULL
        /\ length[t] = 0

\* C11: after every completed call every block of the free list is at
\* least sizeof(free_block) long.
C11_MinimumFreeSize ==
    Quiescent => \A i \in 1..Len(free_list) : free_list[i].length >= FreeHdr

\* C11 witness: a free block of exactly sizeof(free_block) next to used
\* blocks.
C11_Witness ==
    /\ Quiescent
    /\ used # {}
    /\ \E i \in 1..Len(free_list) : free_list[i].length = FreeHdr

\* The total size a request of L bytes needs: max(L, minimum payload) +
\* sizeof(used_block).
Required(L) ==
    (IF L < FreeHdr - UsedHdr THEN FreeHdr - UsedHdr ELSE L) + UsedHdr

\* The entries of the free list that can hold a request of L bytes.
Fitting(L) == {i \in 1..Len(free_list) : free_list[i].length >= Required(L)}

\* C12: a successful mem_alloc(L) carves its used block out of the
\* lowest-addressed free block among those that can hold the request.
C12_FirstFitByAddress ==
    [][\A t \in Threads :
          (pc[t] = "alloc_search" /\ pc'[t] = "alloc_unlock"
              /\ ret'[t] # NULL) =>
             LET lowest == Min({free_list[i].addr : i \in Fitting(length[t])})
                 ub == header(ret'[t])
             IN  /\ lowest <= ub
                 /\ ub < lowest + free_length(free_list, lowest)]_vars

\* C14: mem_alloc(L) returns NULL exactly when no block of the free list can
\* hold the request.
C14_FailsOnlyWhenNothingFits ==
    [][\A t \in Threads :
          (pc[t] = "alloc_search" /\ pc'[t] = "alloc_unlock") =>
             ((ret'[t] = NULL) <=> (Fitting(length[t]) = {}))]_vars

\* C14 witness: a request above the minimum has failed although the free
\* list has a block.
C14_Witness ==
    \E t \in Threads :
        /\ pc[t] = "alloc_unlock"
        /\ ret[t] = NULL
        /\ length[t] > FreeHdr - UsedHdr
        /\ \E i \in 1..Len(free_list) : free_list[i].length = FreeHdr

\* C19: at every point where the lock is not held no free block ends where
\* another free block starts, whatever the order of the list.
C19_NoAdjacentFree ==
    Quiescent =>
        \A i, j \in 1..Len(free_list) :
            free_list[i].addr + free_list[i].length # free_list[j].addr

\* C19 witness: two free blocks, the higher one first in the list, apart.
C19_Witness ==
    /\ Quiescent
    /\ Len(free_list) = 2
    /\ free_list[1].addr > free_list[2].addr

\* A sequence without its i-th element.
Without(fl, i) == SubSeq(fl, 1, i - 1) \o SubSeq(fl, i + 1, Len(fl))

\* In a step of one caller: the call was a mem_alloc that found a block,
\* the call was a mem_free.
Allocates == ret'[1] # NULL
Frees == ptr'[1] # NULL

\* In a step that allocates: the entry of the free list out of which the
\* used block was carved.
Chosen ==
    CHOOSE i \in 1..Len(free_list) :
        /\ free_list[i].addr <= header(ret'[1])
        /\ header(ret'[1]) < free_list[i].addr + free_list[i].length

\* C16: when the leftover of the chosen block (address a, length F) is at
\* least sizeof(free_block), the same entry stays at a in the same place
\* with length F - required, the used header is at a + F - required, the
\* pointer returned is sizeof(used_block) above it and no other entry
\* changes.
C16_SplitFromHighEnd ==
    [][Allocates =>
          LET i == Chosen
              a == free_list[i].addr
              F == free_list[i].length
              rest == F - Required(length'[1])
          IN  rest >= FreeHdr =>
                /\ free_list' = [free_list EXCEPT ![i].length = rest]
                /\ used' = used \cup
                       {[addr |-> a + rest,
                         length |-> Required(length'[1]) - UsedHdr]}
                /\ ret'[1] = a + rest + UsedHdr]_vars

\* C16 witness: a block has been split while the list had another entry.
C16_Witness ==
    /\ ret[1] # NULL
    /\ Len(free_list) >= 2
    /\ \E i \in 1..Len(free_list) :
          free_list[i].addr + free_list[i].length = header(ret[1])

\* C17: when the leftover of the chosen block (address a, length F) is
\* less than sizeof(free_block), the block leaves the list, the other
\* entries stay as they are, and the used header is at a with the length
\* F - sizeof(used_block), so that the used block spans F bytes.
C17_LeftoverAbsorbed ==
    [][Allocates =>
          LET i == Chosen
              a == free_list[i].addr
              F == free_list[i].length
              rest == F - Required(length'[1])
          IN  rest < FreeHdr =>
                /\ free_list' = Without(free_list, i)
                /\ Len(free_list') = Len(free_list) - 1
                /\ used' = used \cup {[addr |-> a, length |-> F - UsedHdr]}
                /\ ret'[1] = a + UsedHdr]_vars

\* C17 witness: a used block has taken a whole free block, more than was
\* asked for, and other free blocks remain.
C17_Witness ==
    /\ ret[1] # NULL
    /\ free_list # <<>>
    /\ UsedHdr + used_length(used, header(ret[1])) > Required(length[1])

\* C18: a mem_free of the used block [s, s + k), with P the free block that
\* ends at s and S the free block that starts at s + k, changes the number
\* of entries by +1 (neither), 0 (one of them) or -1 (both); afterwards
\* one free block covers the freed span, from the start of P if there is
\* one, else from s, with the length k plus the lengths of P and S; the
\* other entries are unchanged.
C18_CoalescingCases ==
    [][Frees =>
          LET s == header(ptr'[1])
              k == UsedHdr + used_length(used, s)
              P == {i \in 1..Len(free_list) :
                       free_list[i].addr + free_list[i].length = s}
              S == {i \in 1..Len(free_list) : free_list[i].addr = s + k}
              start == IF P = {} THEN s ELSE free_list[Min(P)].addr
              total == k + (IF P = {} THEN 0 ELSE free_list[Min(P)].length)
                         + (IF S = {} THEN 0 ELSE free_list[Min(S)].length)
              covers == {j \in 1..Len(free_list') :
                            /\ free_list'[j].addr <= s
                            /\ s < free_list'[j].addr + free_list'[j].length}
          IN  /\ Cardinality(P) <= 1 /\ Cardinality(S) <= 1
              /\ Len(free_list') =
                     Len(free_list) + 1 - Cardinality(P) - Cardinality(S)
              /\ Cardinality(covers) = 1
              /\ \A j \in covers :
                    free_list'[j] = [addr |-> start, length |-> total]
              /\ SelectSeq(free_list', LAMBDA b : b.addr # start) =
                 SelectSeq(free_list,
                           LAMBDA b : \A i \in P \cup S : b # free_list[i])
          ]_vars

\* C18 witness: a block has been freed between two free blocks while the
\* list had a further entry.
C18_Witness ==
    /\ ptr[1] # NULL
    /\ fb_before[1] # NULL
    /\ fb_after[1] # NULL
    /\ Len(free_list) >= 2

C15_OversizedRequestsFail ==
    [][\A t \in Threads :
          (pc[t] = "alloc_search" /\ pc'[t] = "alloc_unlock"
              /\ length[t] > arena.length) =>
             (ret'[t] = NULL /\ free_list' = free_list /\ used' = used)]_vars

\* Two entries of the list fl have spans with a byte in common.
Overlapping(fl) ==
    \E i, j \in 1..Len(fl) :
        /\ i # j
        /\ fl[i].addr <= fl[j].addr
        /\ fl[j].addr < fl[i].addr + fl[i].length

\* A thread is between the list_insert_ordered and the list_remove of the
\* branch of mem_free that coalesces up but not down.
MidMerge == \E u \in Threads : pc[u] = "free_remove"

\* C20: a diagnostic function takes and needs no lock, reads the free list
\* as it is, and changes neither the list nor the blocks nor the lock.  A
\* mem_free that coalesces up but not down inserts the merged block in one
\* step, which gives a list one entry longer than before the call with two
\* entries that overlap, and removes the block after in a later step, which
\* gives back a list one entry shorter with no overlap; two entries overlap
\* only between these two steps.  The list between them is neither the
\* list before the call nor the list after it.
C20_DiagnosticsRace ==
    /\ [](Overlapping(free_list) <=> MidMerge)
    /\ [][\A t \in Threads :
            /\ (observed'[t] # observed[t] /\ observed'[t] # Unobserved) =>
                  /\ UNCHANGED <<free_list, used, gmutex, arena>>
                  /\ observed'[t].kind = "size" =>
                        observed'[t].size = Len(free_list)
                  /\ observed'[t].kind = "dump" =>
                        observed'[t].dump = free_list
            /\ (/\ pc[t] = "free_merge" /\ pc'[t] # "free_merge"
                /\ fb_before[t] = NULL /\ fb_after[t] # NULL) =>
                  /\ pc'[t] = "free_remove"
                  /\ Len(free_list') = Len(free_list) + 1
                  /\ ~Overlapping(free_list)
                  /\ Overlapping(free_list')
            /\ (pc[t] = "free_remove" /\ pc'[t] # "free_remove") =>
                  /\ Len(free_list') = Len(free_list) - 1
                  /\ Overlapping(free_list)
                  /\ ~Overlapping(free_list')]_vars

\* C20 witness: a thread has the dump of the free list, taken while another
\* thread holds the lock between the insert and the remove of its mem_free;
\* the dump has two entries that overlap.
C20_Witness ==
    \E t, u \in Threads :
        /\ t # u
        /\ observed[t].kind = "dump"
        /\ pc[u] = "free_remove"
        /\ gmutex = u
        /\ observed[t].dump = free_list
        /\ Overlapping(observed[t].dump)

====
